---- MODULE Spec2Model ----
(***************************************************************************)
(* A model of src/main_SOLID.py: the YouTube gateway (YouTubeAPI), the     *)
(* slot calendar (CalendarStrategy.generate_schedule) and the tasks the    *)
(* automator runs one at a time (YouTubeAutomator.run).                    *)
(*                                                                         *)
(* Text is a sequence of character codes, so that Python's str comparison, *)
(* str.lower() and the `in` test on strings are computed, not assumed.     *)
(* Time is counted in minutes from a Monday 00:00 of the host's clock: a   *)
(* slot instant has second 0, so `possible > datetime.now()` has the same  *)
(* truth value on whole minutes as on the real clock.                      *)
(*                                                                         *)
(* The per-item gateway calls (videos.list for one id, videos.update,      *)
(* playlistItems.insert, playlistItems.delete) may fail; a failed call     *)
(* changes nothing on the platform.  The three list calls that open a task *)
(* are taken to answer.  The sample titles hold no chapter marker, so      *)
(* ref_map stays empty and no update carries contentDetails.               *)
(***************************************************************************)
EXTENDS Integers, Sequences, FiniteSets, TLC

\* ---------------------------------------------------------------- bounds
MaxRuns == 2
MaxFailures == 2
MaxQuantity == 3
ExtraDays == 2
MaxTicks == 1

\* ------------------------------------------------------ program constants
MaxResultsUploads == 100
MaxResultsMembership == 100
MaxResultsClear == 100
MaxSeconds == 120
MinutesPerDay == 1440

\* the model stops a day walk that has gone this far: a template with one
\* entry needs at most 7 * quantity + 1 days
MaxDays == 7 * (MaxQuantity + 1) + ExtraDays

\* ------------------------------------------------------------------ text
Min(a, b) == IF a < b THEN a ELSE b

\* Python's < on str: lexicographic on code points, a proper prefix is less.
StrLess(s, t) ==
    LET n == Min(Len(s), Len(t)) IN
    \/ \E i \in 1..n : (\A j \in 1..(i - 1) : s[j] = t[j]) /\ s[i] < t[i]
    \/ Len(s) < Len(t) /\ \A j \in 1..n : s[j] = t[j]

\* str.lower() on the ASCII letters.
Lower(s) == [i \in 1..Len(s) |-> IF s[i] \in 65..90 THEN s[i] + 32 ELSE s[i]]

\* Python's `sub in s` on str.
Contains(s, sub) ==
    \E i \in 0..(Len(s) - Len(sub)) : \A j \in 1..Len(sub) : s[i + j] = sub[j]

\* "#biblia"
Tag == <<35, 98, 105, 98, 108, 105, 97>>

\* faulty variant: the tag is looked for in the title as written
NewTitleCaseSensitive(title) ==
    IF Contains(title, Tag) THEN title ELSE title \o <<32>> \o Tag

\* f"{title} #biblia" unless the tag is in title.lower()
NewTitle(title) ==
    IF Contains(Lower(title), Tag) THEN title ELSE title \o <<32>> \o Tag

Take(seq, n) == SubSeq(seq, 1, Min(n, Len(seq)))

Front(seq) == SubSeq(seq, 1, Len(seq) - 1)

\* list.sort(key=lambda x: x["title"]): stable, ascending, case-sensitive.
InsertByTitle(sorted, x) ==
    LET later == {i \in 1..Len(sorted) : StrLess(x.title, sorted[i].title)}
        at == IF later = {} THEN Len(sorted) + 1
              ELSE CHOOSE i \in later : \A j \in later : i <= j
    IN SubSeq(sorted, 1, at - 1) \o <<x>> \o SubSeq(sorted, at, Len(sorted))

\* faulty variant: the list is left in the order of the uploads
KeepOrder(seq) == seq

RECURSIVE SortByTitle(_)
SortByTitle(seq) ==
    IF seq = <<>> THEN <<>>
    ELSE InsertByTitle(SortByTitle(Front(seq)), seq[Len(seq)])

\* list.sort(key=lambda x: x["title"].lower(), reverse=True): stable, descending.
InsertByLowerTitleReverse(sorted, x) ==
    LET later == {i \in 1..Len(sorted) :
                    StrLess(Lower(sorted[i].title), Lower(x.title))}
        at == IF later = {} THEN Len(sorted) + 1
              ELSE CHOOSE i \in later : \A j \in later : i <= j
    IN SubSeq(sorted, 1, at - 1) \o <<x>> \o SubSeq(sorted, at, Len(sorted))

RECURSIVE SortByLowerTitleReverse(_)
SortByLowerTitleReverse(seq) ==
    IF seq = <<>> THEN <<>>
    ELSE InsertByLowerTitleReverse(SortByLowerTitleReverse(Front(seq)), seq[Len(seq)])

\* ------------------------------------------------------------- durations
\* An ISO-8601 duration as its <number><designator> tokens: PT2M5S is
\* <<[n |-> 2, u |-> "M"], [n |-> 5, u |-> "S"]>>; "" is <<>>.
FirstNumber(duration_str, unit) ==
    LET at == {i \in 1..Len(duration_str) : duration_str[i].u = unit} IN
    IF at = {} THEN 0
    ELSE duration_str[CHOOSE i \in at : \A j \in at : i <= j].n

_check_duration(duration_str, max_seconds) ==
    IF \E i \in 1..Len(duration_str) : duration_str[i].u = "H" THEN FALSE
    ELSE LET total_seconds == FirstNumber(duration_str, "M") * 60
                              + FirstNumber(duration_str, "S")
         IN 0 < total_seconds /\ total_seconds <= max_seconds

\* -------------------------------------------------------------- calendar
\* (weekday, hour, minute), Monday = 0
CodeSlots ==
    << <<0, 7, 30>>, <<1, 13, 0>>, <<2, 13, 0>>, <<3, 13, 0>>,
       <<4, 19, 0>>, <<5, 10, 0>>, <<6, 20, 0>> >>

DayOf(t) == t \div MinutesPerDay

\* datetime.weekday()
Weekday(t) == DayOf(t) % 7

\* current.replace(hour=hr, minute=mnt, second=0, microsecond=0)
Replace(t, hr, mnt) == DayOf(t) * MinutesPerDay + hr * 60 + mnt

\* strftime("%Y-%m-%dT%H:%M:%SZ"): the date, hour and minute fields (the
\* second field is always 00)
Strftime(t) == <<DayOf(t), (t % MinutesPerDay) \div 60, t % 60>>

\* the instant a formatted timestamp names on the host's clock
Instant(ts) == ts[1] * MinutesPerDay + ts[2] * 60 + ts[3]

\* faulty variant: a slot at the very instant of `now` is taken too
RECURSIVE DaySlotsNotStrict(_, _, _, _, _)
DaySlotsNotStrict(sl, cur, now, qty, ds) ==
    IF sl = <<>> THEN ds
    ELSE LET s == Head(sl)
             possible == Replace(cur, s[2], s[3])
             ds2 == IF Weekday(cur) = s[1] /\ possible >= now /\ Len(ds) < qty
                    THEN Append(ds, Strftime(possible))
                    ELSE ds
         IN DaySlotsNotStrict(Tail(sl), cur, now, qty, ds2)

\* the `for s_day, hr, mnt in slots` loop of one day, `now` being what
\* datetime.now() answers during it
RECURSIVE DaySlots(_, _, _, _, _)
DaySlots(sl, cur, now, qty, ds) ==
    IF sl = <<>> THEN ds
    ELSE LET s == Head(sl)
             possible == Replace(cur, s[2], s[3])
             ds2 == IF Weekday(cur) = s[1] /\ possible > now /\ Len(ds) < qty
                    THEN Append(ds, Strftime(possible))
                    ELSE ds
         IN DaySlots(Tail(sl), cur, now, qty, ds2)

\* faulty variant: the walk stays on the same day
SameDay(cur) == cur

\* current += timedelta(days=1); current = current.replace(hour=0, minute=0)
NextDay(cur) == (DayOf(cur) + 1) * MinutesPerDay

\* --------------------------------------------------------------- gateway
\* playlistItems().list(..., maxResults=100): the first page only
fetch_videos(ups) == Take(ups, MaxResultsUploads)

fetch_playlist_items(pl) ==
    LET page == Take(pl, MaxResultsMembership) IN
    [i \in 1..Len(page) |-> page[i].videoId]

list_item_ids(pl) ==
    LET page == Take(pl, MaxResultsClear) IN
    [i \in 1..Len(page) |-> page[i].id]

Range(seq) == {seq[i] : i \in 1..Len(seq)}

\* videos().update(part="snippet,status,contentDetails", body=body)
update_video_content(vs, body) ==
    [vs EXCEPT ![body.id] =
        [@ EXCEPT !.title = body.title,
                  !.description = body.description,
                  !.privacyStatus = body.privacyStatus,
                  !.publishAt = body.publishAt]]

\* playlistItems().insert: a new membership record at the end of the list
add_to_playlist(pl, rid, video_id) ==
    Append(pl, [id |-> rid, videoId |-> video_id])

\* faulty variant: the delete removes the first record of the list, whatever its id
delete_first(pl, rid) == Tail(pl)

\* playlistItems().delete(id=...)
delete_item(pl, rid) == SelectSeq(pl, LAMBDA r : r.id # rid)

\* faulty variant: the update publishes the video
BodyPublic(vid_info, publish_date) ==
    [id |-> vid_info.id,
     title |-> NewTitle(vid_info.title),
     description |-> "DESC",
     privacyStatus |-> "public",
     publishAt |-> publish_date]

\* the update payload of FullAutomationTask
Body(vid_info, publish_date) ==
    [id |-> vid_info.id,
     title |-> NewTitle(vid_info.title),
     description |-> "DESC",
     privacyStatus |-> "private",
     publishAt |-> publish_date]

\* ----------------------------------------------------------------- state
VARIABLES
    videos,                 \* the platform's video resources, by id
    uploads,                \* the channel's uploads list (video ids)
    playlist,               \* the target playlist: membership records
    nextRid,                \* the id the next membership record gets
    clock,                  \* what datetime.now() answers
    slots,                  \* the weekly template of generate_schedule
    failsLeft,              \* gateway failures still to come
    runsLeft,               \* runs of the automator still to come
    task,                   \* the task YouTubeAutomator.run is executing
    pc,                     \* its position
    items,                  \* ListPrivateVideosTask: items
    scan,                   \* index of the `for item in ...` loops
    private_videos,         \* ListPrivateVideosTask: private_videos
    to_program_data,        \* FullAutomationTask: to_program_data
    videos_ya_en_playlist,  \* the membership listing fetched by the task
    all_items,              \* the uploads fetched by the task
    idx,                    \* index of the processing loops
    quantity,               \* generate_schedule: quantity
    current,                \* generate_schedule: current
    started,                \* the instant generate_schedule was entered
    dates,                  \* generate_schedule: dates
    videos_seleccionados,   \* AddPublicShortsExtendedTask: the candidates
    count,                  \* AddPublicShortsExtendedTask: count
    clear_items,            \* ClearPlaylistTask: items (record ids)
    calls,                  \* the mutating gateway calls of the run, in order
    reports                 \* what the run printed per item, in order

world == <<videos, uploads, playlist, nextRid>>
lpVars == <<items, private_videos>>
fsVars == <<to_program_data, videos_ya_en_playlist, all_items>>
genVars == <<quantity, current, started, dates>>
ssVars == <<videos_seleccionados, count>>
vars == <<videos, uploads, playlist, nextRid, clock, slots, failsLeft, runsLeft,
          task, pc, items, scan, private_videos, to_program_data,
          videos_ya_en_playlist, all_items, idx, quantity, current, started,
          dates, videos_seleccionados, count, clear_items, calls, reports>>

\* ------------------------------------------------------------ the samples
Videos == {"v1", "v2", "v3"}

\* "b", "B", "a"
Titles == [v \in Videos |->
            CASE v = "v1" -> <<98>> [] v = "v2" -> <<66>> [] OTHER -> <<97>>]

\* PT45S, PT2M5S, PT1M
Durations == [v \in Videos |->
            CASE v = "v1" -> <<[n |-> 45, u |-> "S"]>>
              [] v = "v2" -> <<[n |-> 2, u |-> "M"], [n |-> 5, u |-> "S"]>>
              [] OTHER -> <<[n |-> 1, u |-> "M"]>>]

Privacies ==
    {p \in [Videos -> {"private", "public", "unlisted"}] :
        p["v1"] # "unlisted" /\ p["v2"] # "unlisted"}

\* membership records for a list of video ids, numbered from 1
Records(vids) == [i \in 1..Len(vids) |-> [id |-> i, videoId |-> vids[i]]]

\* "w0" is a video of another channel
Playlists ==
    {<<>>, <<"v1">>, <<"v2", "v2">>, <<"w0", "v3">>}

\* Sunday 23:00 and Monday 07:29
Clocks == {6 * MinutesPerDay + 23 * 60, 7 * 60 + 29}

InitLocals ==
    /\ task = "none" /\ pc = "idle"
    /\ items = <<>> /\ scan = 0 /\ private_videos = <<>>
    /\ to_program_data = <<>> /\ videos_ya_en_playlist = <<>>
    /\ all_items = <<>> /\ idx = 0
    /\ quantity = 0 /\ current = 0 /\ started = 0 /\ dates = <<>>
    /\ videos_seleccionados = <<>> /\ count = 0 /\ clear_items = <<>>
    /\ calls = <<>> /\ reports = <<>>

InitVideos(p) ==
    [v \in Videos |-> [title |-> Titles[v], description |-> "",
                       privacyStatus |-> p[v], publishAt |-> <<>>,
                       duration |-> Durations[v]]]

Init ==
    /\ \E p \in Privacies : videos = InitVideos(p)
    /\ uploads = <<"v1", "v2", "v3">>
    /\ \E vids \in Playlists : playlist = Records(vids)
    /\ nextRid = Len(playlist) + 1
    /\ clock \in Clocks
    /\ slots = CodeSlots
    /\ failsLeft = MaxFailures
    /\ runsLeft = MaxRuns
    /\ InitLocals

\* --------------------------------------------------------------- helpers
\* a per-item gateway call answers, or fails while failures are left
Outcomes == IF failsLeft > 0 THEN {TRUE, FALSE} ELSE {TRUE}

\* videos().list(id=...) answers a record, raises, or answers no item
Answers == IF failsLeft > 0 THEN {"record", "raise", "none"} ELSE {"record"}

Call(op, id, arg, ok) == [op |-> op, id |-> id, arg |-> arg, ok |-> ok]

Report(kind, id) == [kind |-> kind, id |-> id]

LpReset == items' = <<>> /\ private_videos' = <<>>
FsReset == to_program_data' = <<>>
GenReset == quantity' = 0 /\ current' = 0 /\ started' = 0 /\ dates' = <<>>
SsReset == videos_seleccionados' = <<>> /\ count' = 0
ClReset == clear_items' = <<>>

\* YouTubeAutomator.run(task)
Start(t) ==
    /\ pc \in {"idle", "done", "aborted"}
    /\ runsLeft > 0
    /\ runsLeft' = runsLeft - 1
    /\ task' = t
    /\ calls' = <<>>
    /\ UNCHANGED <<world, clock, slots, failsLeft>>

\* generate_schedule: dates = []; current = datetime.now()
GenEnter(q) ==
    /\ quantity' = q
    /\ current' = clock
    /\ started' = clock
    /\ dates' = <<>>

\* faulty variant: the membership test always answers "not there"
NeverInPlaylist(v_id, listing) == FALSE

\* `v_id not in videos_ya_en_playlist`, read the other way round
AlreadyInPlaylist(v_id, listing) == v_id \in Range(listing)

\* faulty variant: an exception ends the loop
BreakOnError(i, n) == n + 1

\* where a processing loop goes on after `except Exception`: the next item
AfterError(i, n) == i + 1

\* faulty variant: every candidate is paired with the first timestamp
PairWithFirst(data, ds, i) == [vid_info |-> data[i], publish_date |-> ds[1]]

\* zip(to_program_data, dates): the i-th pair
Pair(data, ds, i) == [vid_info |-> data[i], publish_date |-> ds[i]]

PairCount(data, ds) == Min(Len(data), Len(ds))

\* ------------------------------------------- ListPrivateVideosTask.execute
\* lines 253-259, entered by the task itself or by FullAutomationTask
LpEnter ==
    /\ items' = fetch_videos(uploads)
    /\ scan' = 1
    /\ private_videos' = <<>>
    /\ pc' = "lp_scan"
    /\ reports' = <<>>
    /\ to_program_data' = <<>> /\ videos_ya_en_playlist' = <<>>
    /\ all_items' = <<>> /\ idx' = 0
    /\ GenReset /\ SsReset /\ ClReset

Run_ListPrivate == Start("ListPrivateVideos") /\ LpEnter

Run_FullAutomation == Start("FullAutomation") /\ LpEnter

\* one round of `for item in items`: the detail fetch is not guarded, so a
\* raise, or the None of an empty answer (details["status"] on None), leaves
\* execute with the exception
LP_Scan ==
    /\ pc = "lp_scan" /\ scan <= Len(items)
    /\ LET v_id == items[scan] IN
       \E details \in Answers :
          IF details = "record"
          THEN /\ private_videos' =
                    IF videos[v_id].privacyStatus = "private"
                    THEN Append(private_videos,
                                [title |-> videos[v_id].title, id |-> v_id])
                    ELSE private_videos
               /\ scan' = scan + 1
               /\ UNCHANGED <<pc, failsLeft, reports>>
          ELSE /\ pc' = "aborted"
               /\ failsLeft' = failsLeft - 1
               /\ reports' = Append(reports, Report("exception", v_id))
               /\ UNCHANGED <<private_videos, scan>>
    /\ UNCHANGED <<world, clock, slots, runsLeft, task, items, fsVars, idx,
                   genVars, ssVars, clear_items, calls>>

\* private_videos.sort(...); return private_videos
LP_Return ==
    /\ pc = "lp_scan" /\ scan > Len(items)
    /\ private_videos' = SortByTitle(private_videos)
    /\ pc' = IF task = "ListPrivateVideos" THEN "done" ELSE "fs_prepare"
    /\ UNCHANGED <<world, clock, slots, failsLeft, runsLeft, task, items, scan,
                   fsVars, idx, genVars, ssVars, clear_items, calls, reports>>

\* ---------------------------------------------- FullAutomationTask.execute
\* faulty variant: the task goes on with an empty list
NeverNothing(data) == FALSE

\* line 178: `if not to_program_data`
NothingToProgram(data) == data = <<>>

\* lines 176-199: the early return, the membership listing, the uploads for
\* ref_map, and the entry of generate_schedule(len(to_program_data))
FS_Prepare ==
    /\ pc = "fs_prepare"
    /\ to_program_data' = private_videos
    /\ IF NothingToProgram(private_videos)
       THEN /\ pc' = "done"
            /\ reports' = Append(reports, Report("nothing", "-"))
            /\ UNCHANGED <<videos_ya_en_playlist, all_items, genVars>>
       ELSE /\ pc' = "gen"
            /\ videos_ya_en_playlist' = fetch_playlist_items(playlist)
            /\ all_items' = fetch_videos(uploads)
            /\ GenEnter(Len(private_videos))
            /\ UNCHANGED reports
    /\ UNCHANGED <<world, clock, slots, failsLeft, runsLeft, task, lpVars,
                   scan, idx, ssVars, clear_items, calls>>

\* faulty variant: the update and the insert each in a try block of its
\* own, so the insert is tried whatever the update did
FS_ItemSeparateTry ==
    /\ pc = "fs_loop" /\ idx <= PairCount(to_program_data, dates)
    /\ LET pair == Pair(to_program_data, dates, idx)
           v_id == pair.vid_info.id
           body == Body(pair.vid_info, pair.publish_date)
       IN
       \E updated \in Outcomes :
          /\ videos' = IF updated THEN update_video_content(videos, body)
                       ELSE videos
          /\ failsLeft' = IF updated THEN failsLeft ELSE failsLeft - 1
          /\ reports' = Append(reports,
                  Report(IF updated THEN "scheduled" ELSE "failed", v_id))
          /\ idx' = idx + 1
          /\ IF AlreadyInPlaylist(v_id, videos_ya_en_playlist)
             THEN /\ calls' = Append(calls, Call("update", v_id, body, updated))
                  /\ UNCHANGED <<playlist, nextRid>>
             ELSE /\ calls' = calls \o <<Call("update", v_id, body, updated),
                                         Call("insert", v_id, "PLAYLIST_ID", TRUE)>>
                  /\ playlist' = add_to_playlist(playlist, nextRid, v_id)
                  /\ nextRid' = nextRid + 1
    /\ UNCHANGED <<uploads, clock, slots, runsLeft, task, pc, lpVars, scan,
                   fsVars, genVars, ssVars, clear_items>>

\* one round of `for vid_info, publish_date in zip(to_program_data, dates)`
FS_Item ==
    /\ pc = "fs_loop" /\ idx <= PairCount(to_program_data, dates)
    /\ LET pair == Pair(to_program_data, dates, idx)
           v_id == pair.vid_info.id
           body == Body(pair.vid_info, pair.publish_date)
       IN
       \E updated \in Outcomes :
          IF ~updated
          THEN /\ calls' = Append(calls, Call("update", v_id, body, FALSE))
               /\ reports' = Append(reports, Report("failed", v_id))
               /\ failsLeft' = failsLeft - 1
               /\ idx' = AfterError(idx, PairCount(to_program_data, dates))
               /\ UNCHANGED <<videos, playlist, nextRid>>
          ELSE IF AlreadyInPlaylist(v_id, videos_ya_en_playlist)
          THEN /\ videos' = update_video_content(videos, body)
               /\ calls' = Append(calls, Call("update", v_id, body, TRUE))
               /\ reports' = reports \o <<Report("scheduled", v_id),
                                          Report("skipped", v_id)>>
               /\ idx' = idx + 1
               /\ UNCHANGED <<playlist, nextRid, failsLeft>>
          ELSE \E inserted \in Outcomes :
               /\ videos' = update_video_content(videos, body)
               /\ calls' = calls \o <<Call("update", v_id, body, TRUE),
                                      Call("insert", v_id, "PLAYLIST_ID", inserted)>>
               /\ playlist' = IF inserted
                              THEN add_to_playlist(playlist, nextRid, v_id)
                              ELSE playlist
               /\ nextRid' = IF inserted THEN nextRid + 1 ELSE nextRid
               /\ failsLeft' = IF inserted THEN failsLeft ELSE failsLeft - 1
               /\ reports' = reports \o
                    <<Report("scheduled", v_id),
                      Report(IF inserted THEN "added" ELSE "failed", v_id)>>
               /\ idx' = IF inserted THEN idx + 1
                         ELSE AfterError(idx, PairCount(to_program_data, dates))
    /\ UNCHANGED <<uploads, clock, slots, runsLeft, task, pc, lpVars, scan,
                   fsVars, genVars, ssVars, clear_items>>

\* line 248
FS_Finish ==
    /\ pc = "fs_loop" /\ idx > PairCount(to_program_data, dates)
    /\ pc' = "done"
    /\ reports' = Append(reports, Report("completed", "-"))
    /\ UNCHANGED <<world, clock, slots, failsLeft, runsLeft, task, lpVars, scan,
                   fsVars, idx, genVars, ssVars, clear_items, calls>>

\* ------------------------------------ CalendarStrategy.generate_schedule
\* a direct call of the static method
Run_Calendar ==
    /\ Start("Calendar")
    /\ \E q \in 0..MaxQuantity : GenEnter(q)
    /\ pc' = "gen"
    /\ reports' = <<>>
    /\ LpReset /\ scan' = 0 /\ FsReset /\ videos_ya_en_playlist' = <<>>
    /\ all_items' = <<>> /\ idx' = 0 /\ SsReset /\ ClReset

\* one round of `while len(dates) < quantity`; datetime.now() is read again
\* at the comparison and may have moved on
Gen_Day ==
    /\ pc = "gen" /\ Len(dates) < quantity
    /\ DayOf(current) - DayOf(started) < MaxDays
    /\ \E tick \in 0..1 :
          /\ clock + tick - started <= MaxTicks
          /\ clock' = clock + tick
          /\ dates' = DaySlots(slots, current, clock + tick, quantity, dates)
    /\ current' = NextDay(current)
    /\ UNCHANGED <<world, slots, failsLeft, runsLeft, task, pc, lpVars, scan,
                   fsVars, idx, quantity, started, ssVars, clear_items, calls,
                   reports>>

\* lines 147-148, back in the caller
Gen_Return ==
    /\ pc = "gen" /\ Len(dates) >= quantity
    /\ pc' = IF task = "Calendar" THEN "done" ELSE "fs_loop"
    /\ idx' = 1
    /\ UNCHANGED <<world, clock, slots, failsLeft, runsLeft, task, lpVars, scan,
                   fsVars, genVars, ssVars, clear_items, calls, reports>>

\* ------------------------------------- AddPublicShortsExtendedTask.execute
\* lines 342-355
Run_AddPublicShorts ==
    /\ Start("AddPublicShorts")
    /\ videos_ya_en_playlist' = fetch_playlist_items(playlist)
    /\ all_items' = fetch_videos(uploads)
    /\ videos_seleccionados' = <<>>
    /\ scan' = 1
    /\ pc' = "ss_scan"
    /\ reports' = <<>>
    /\ LpReset /\ FsReset /\ idx' = 0 /\ GenReset /\ count' = 0 /\ ClReset

\* one round of `for item in all_items`, the detail fetch unguarded
SS_Scan ==
    /\ pc = "ss_scan" /\ scan <= Len(all_items)
    /\ LET v_id == all_items[scan] IN
       \E details \in Answers :
          IF details = "record"
          THEN /\ videos_seleccionados' =
                    IF /\ videos[v_id].privacyStatus = "public"
                       /\ _check_duration(videos[v_id].duration, MaxSeconds)
                    THEN Append(videos_seleccionados,
                                [title |-> videos[v_id].title, id |-> v_id])
                    ELSE videos_seleccionados
               /\ scan' = scan + 1
               /\ UNCHANGED <<pc, failsLeft, reports>>
          ELSE /\ pc' = "aborted"
               /\ failsLeft' = failsLeft - 1
               /\ reports' = Append(reports, Report("exception", v_id))
               /\ UNCHANGED <<videos_seleccionados, scan>>
    /\ UNCHANGED <<world, clock, slots, runsLeft, task, lpVars, fsVars, idx,
                   genVars, count, clear_items, calls>>

\* lines 374-381
SS_Sort ==
    /\ pc = "ss_scan" /\ scan > Len(all_items)
    /\ videos_seleccionados' = SortByLowerTitleReverse(videos_seleccionados)
    /\ count' = 0
    /\ idx' = 1
    /\ pc' = "ss_loop"
    /\ UNCHANGED <<world, clock, slots, failsLeft, runsLeft, task, lpVars, scan,
                   fsVars, genVars, clear_items, calls, reports>>

\* one round of `for vid in videos_seleccionados`
SS_Item ==
    /\ pc = "ss_loop" /\ idx <= Len(videos_seleccionados)
    /\ LET vid == videos_seleccionados[idx] IN
       IF AlreadyInPlaylist(vid.id, videos_ya_en_playlist)
       THEN /\ reports' = Append(reports, Report("skipped", vid.id))
            /\ idx' = idx + 1
            /\ UNCHANGED <<playlist, nextRid, failsLeft, count, calls>>
       ELSE \E inserted \in Outcomes :
            /\ calls' = Append(calls, Call("insert", vid.id, "PLAYLIST_ID", inserted))
            /\ playlist' = IF inserted
                           THEN add_to_playlist(playlist, nextRid, vid.id)
                           ELSE playlist
            /\ nextRid' = IF inserted THEN nextRid + 1 ELSE nextRid
            /\ failsLeft' = IF inserted THEN failsLeft ELSE failsLeft - 1
            /\ count' = IF inserted THEN count + 1 ELSE count
            /\ reports' = Append(reports,
                    Report(IF inserted THEN "added" ELSE "failed", vid.id))
            /\ idx' = IF inserted THEN idx + 1
                      ELSE AfterError(idx, Len(videos_seleccionados))
    /\ UNCHANGED <<videos, uploads, clock, slots, runsLeft, task, pc, lpVars,
                   scan, fsVars, genVars, videos_seleccionados, clear_items>>

\* line 393
SS_Finish ==
    /\ pc = "ss_loop" /\ idx > Len(videos_seleccionados)
    /\ pc' = "done"
    /\ reports' = Append(reports, Report("completed", "-"))
    /\ UNCHANGED <<world, clock, slots, failsLeft, runsLeft, task, lpVars, scan,
                   fsVars, idx, genVars, ssVars, clear_items, calls>>

\* ----------------------------------------------- ClearPlaylistTask.execute
\* lines 307-321
Run_ClearPlaylist ==
    /\ Start("ClearPlaylist")
    /\ clear_items' = list_item_ids(playlist)
    /\ IF playlist = <<>>
       THEN pc' = "done" /\ idx' = 0 /\ reports' = <<Report("empty", "-")>>
       ELSE pc' = "cl_loop" /\ idx' = 1 /\ reports' = <<>>
    /\ LpReset /\ scan' = 0 /\ FsReset /\ videos_ya_en_playlist' = <<>>
    /\ all_items' = <<>> /\ GenReset /\ SsReset

\* one round of `for item in items`
CL_Item ==
    /\ pc = "cl_loop" /\ idx <= Len(clear_items)
    /\ LET rid == clear_items[idx] IN
       \E deleted \in Outcomes :
          /\ calls' = Append(calls, Call("delete", rid, "-", deleted))
          /\ playlist' = IF deleted THEN delete_item(playlist, rid) ELSE playlist
          /\ failsLeft' = IF deleted THEN failsLeft ELSE failsLeft - 1
          /\ idx' = IF deleted THEN idx + 1
                    ELSE AfterError(idx, Len(clear_items))
    /\ UNCHANGED <<videos, uploads, nextRid, clock, slots, runsLeft, task, pc,
                   lpVars, scan, fsVars, genVars, ssVars, clear_items, reports>>

\* line 329
CL_Finish ==
    /\ pc = "cl_loop" /\ idx > Len(clear_items)
    /\ pc' = "done"
    /\ reports' = Append(reports, Report("completed", "-"))
    /\ UNCHANGED <<world, clock, slots, failsLeft, runsLeft, task, lpVars, scan,
                   fsVars, idx, genVars, ssVars, clear_items, calls>>

\* ------------------------------------- TestShortsRelatedFieldTask.execute
\* the short of line 459
ShortId == "zZi381IEpKE"

\* contentDetails.get("relatedVideoId", "NO ENCONTRADO") on the record of
\* the short: the field is absent, or names a video
RelatedValues == {"NO ENCONTRADO", "v1"}

\* faulty variant: the exception leaves the task
ProbeErrorLeaves == "aborted"

\* lines 298-299: `except Exception as e` prints the error; execute returns
AfterProbeError == "done"

\* line 291
Run_TestShortsRelatedField ==
    /\ Start("TestShortsRelatedField")
    /\ pc' = "probe"
    /\ reports' = <<>>
    /\ LpReset /\ scan' = 0 /\ FsReset /\ videos_ya_en_playlist' = <<>>
    /\ all_items' = <<>> /\ idx' = 0 /\ GenReset /\ SsReset /\ ClReset

\* lines 292-299: the detail fetch inside try; an answer without item makes
\* `details.get` raise on None, which the same except catches
Probe_Fetch ==
    /\ pc = "probe"
    /\ \E details \in Answers :
          IF details = "record"
          THEN /\ \E related \in RelatedValues :
                     reports' = Append(reports, Report("result", related))
               /\ pc' = "done"
               /\ UNCHANGED failsLeft
          ELSE /\ reports' = Append(reports, Report("error", ShortId))
               /\ pc' = AfterProbeError
               /\ failsLeft' = failsLeft - 1
    /\ UNCHANGED <<world, clock, slots, runsLeft, task, lpVars, scan, fsVars,
                   idx, genVars, ssVars, clear_items, calls>>

\* ------------------------------------------------------ the specification
Next ==
    \/ Run_ListPrivate \/ LP_Scan \/ LP_Return
    \/ Run_FullAutomation \/ FS_Prepare \/ FS_Item \/ FS_Finish
    \/ Run_Calendar \/ Gen_Day \/ Gen_Return
    \/ Run_AddPublicShorts \/ SS_Scan \/ SS_Sort \/ SS_Item \/ SS_Finish
    \/ Run_ClearPlaylist \/ CL_Item \/ CL_Finish
    \/ Run_TestShortsRelatedField \/ Probe_Fetch

Spec == Init /\ [][Next]_vars

\* ---------------------------------------------- the calendar, more widely
\* generate_schedule under other weekly templates (the entries of the code's
\* template for some weekdays, down to none) and at more instants
TemplateDays == {0..6, {}, {0}, {0, 1}, {6}, {2, 4, 5}, {3}}

Template(days) == SelectSeq(CodeSlots, LAMBDA s : s[1] \in days)

Templates == {Template(days) : days \in TemplateDays}

\* every weekday at 00:00, 07:29, 07:30, 13:00, 20:00 and 23:59
CalendarClocks ==
    {d * MinutesPerDay + m : d \in 0..6, m \in {0, 449, 450, 780, 1200, 1439}}

InitCalendar ==
    /\ videos = InitVideos([v \in Videos |->
                    IF v = "v3" THEN "public" ELSE "private"])
    /\ uploads = <<"v1", "v2", "v3">>
    /\ playlist = Records(<<"v1">>)
    /\ nextRid = Len(playlist) + 1
    /\ clock \in CalendarClocks
    /\ slots \in Templates
    /\ failsLeft = 1
    /\ runsLeft = 1
    /\ InitLocals

SpecCalendar == InitCalendar /\ [][Next]_vars

\* the task is one thread of control: a loop that can take its next round
\* takes it
SpecCalendarFair ==
    InitCalendar /\ [][Next]_vars /\ WF_vars(Gen_Day) /\ WF_vars(Gen_Return)

\* ------------------------------------------ a playlist beyond one page
Filler(n) == [i \in 1..n |-> "w0"]

InitPaged ==
    /\ videos = InitVideos([v \in Videos |->
                    IF v = "v3" THEN "public" ELSE "private"])
    /\ uploads = <<"v1", "v2", "v3">>
    /\ \E tail \in {<<>>, <<"v1">>, <<"v3", "v1">>} :
          playlist = Records(Filler(MaxResultsMembership) \o tail)
    /\ nextRid = Len(playlist) + 1
    /\ clock \in Clocks
    /\ slots = CodeSlots
    /\ failsLeft = 1
    /\ runsLeft = MaxRuns
    /\ InitLocals

SpecPaged == InitPaged /\ [][Next]_vars

\* ------------------------------- other titles, privacies and durations
\* B, a, C; b, B, a; "#BIBLIA", "B #Biblia", a; a, A, a
TitleChoices ==
    { [v \in Videos |-> CASE v = "v1" -> <<66>> [] v = "v2" -> <<97>>
                          [] OTHER -> <<67>>],
      Titles,
      [v \in Videos |-> CASE v = "v1" -> <<35, 66, 73, 66, 76, 73, 65>>
                          [] v = "v2" -> <<66, 32, 35, 66, 105, 98, 108, 105, 97>>
                          [] OTHER -> <<97>>],
      [v \in Videos |-> CASE v = "v1" -> <<97>> [] v = "v2" -> <<65>>
                          [] OTHER -> <<97>>] }

PrivacyChoices ==
    { [v \in Videos |-> "private"],
      [v \in Videos |-> "public"],
      [v \in Videos |-> CASE v = "v1" -> "unlisted" [] v = "v2" -> "public"
                          [] OTHER -> "private"] }

\* "" (no duration), P0D, PT0S, PT45S, PT1M, PT2M, PT2M5S, PT3M, PT1H,
\* PT1H1M30S, PT2H59S, P1DT30S
DurationSamples ==
    { <<>>,
      <<[n |-> 0, u |-> "D"]>>,
      <<[n |-> 0, u |-> "S"]>>,
      <<[n |-> 45, u |-> "S"]>>,
      <<[n |-> 1, u |-> "M"]>>,
      <<[n |-> 2, u |-> "M"]>>,
      <<[n |-> 2, u |-> "M"], [n |-> 5, u |-> "S"]>>,
      <<[n |-> 3, u |-> "M"]>>,
      <<[n |-> 1, u |-> "H"]>>,
      <<[n |-> 1, u |-> "H"], [n |-> 1, u |-> "M"], [n |-> 30, u |-> "S"]>>,
      <<[n |-> 2, u |-> "H"], [n |-> 59, u |-> "S"]>>,
      <<[n |-> 1, u |-> "D"], [n |-> 30, u |-> "S"]>> }

\* the first upload takes each sample; the others last PT2M and PT1M
DurationChoices ==
    { [v \in Videos |-> CASE v = "v1" -> d
                          [] v = "v2" -> <<[n |-> 2, u |-> "M"]>>
                          [] OTHER -> <<[n |-> 1, u |-> "M"]>>] :
      d \in DurationSamples }

InitInputs ==
    /\ \E t \in TitleChoices, p \in PrivacyChoices, d \in DurationChoices :
          videos = [v \in Videos |->
                       [title |-> t[v], description |-> "",
                        privacyStatus |-> p[v], publishAt |-> <<>>,
                        duration |-> d[v]]]
    /\ uploads = <<"v1", "v2", "v3">>
    /\ playlist = <<>>
    /\ nextRid = 1
    /\ clock = 7 * 60 + 29
    /\ slots = CodeSlots
    /\ failsLeft = 1
    /\ runsLeft = 2
    /\ InitLocals

SpecInputs == InitInputs /\ [][Next]_vars


\* ================================================================ claims
FinishedRun(t) == task = t /\ pc = "done"

\* the membership records of the playlist that hold video v
RecordsOf(v) == {k \in 1..Len(playlist) : playlist[k].videoId = v}

\* the ids the run inserted
InsertedIds ==
    {calls[i].id : i \in {j \in 1..Len(calls) : calls[j].op = "insert" /\ calls[j].ok}}

\* C1: when a run of FullAutomationTask or AddPublicShortsExtendedTask has
\* finished, every item it inserted is held by exactly one membership record
\* of the target playlist, whatever the playlist held before.
C1_InsertedOnce ==
    (FinishedRun("FullAutomation") \/ FinishedRun("AddPublicShorts"))
        => \A v \in InsertedIds : Cardinality(RecordsOf(v)) = 1

\* the candidates of the run's processing loop, in processing order
Candidates ==
    IF task = "FullAutomation" THEN to_program_data
    ELSE IF task = "AddPublicShorts" THEN videos_seleccionados
    ELSE <<>>

Reported(kind, v) == \E i \in 1..Len(reports) : reports[i] = Report(kind, v)

Called(op, v) == \E i \in 1..Len(calls) : calls[i].op = op /\ calls[i].id = v

CalledWith(op, v, ok) ==
    \E i \in 1..Len(calls) : calls[i].op = op /\ calls[i].id = v /\ calls[i].ok = ok

\* the candidates the fetched membership listing holds
ListedCandidates ==
    {Candidates[i].id : i \in {j \in 1..Len(Candidates) :
        Candidates[j].id \in Range(videos_ya_en_playlist)}}

InsertingTask == task \in {"FullAutomation", "AddPublicShorts"}

\* C2, as stated: for a candidate that is in the fetched membership listing
\* the insert is never called, and when the run has finished the candidate
\* has been reported as skipped (with, in FullAutomationTask, its metadata
\* update issued).
C2_ListedSkippedAlways ==
    InsertingTask =>
        /\ \A v \in ListedCandidates : ~Called("insert", v)
        /\ pc = "done" =>
              \A v \in ListedCandidates :
                 /\ Reported("skipped", v)
                 /\ task = "FullAutomation" => Called("update", v)

\* C2, amended: for a candidate that is in the fetched membership listing the
\* insert is never called; when the run has finished, AddPublicShorts has
\* reported it as skipped, and FullAutomationTask has issued its metadata
\* update and reported it as skipped if that update succeeded, as failed if
\* the update raised; every candidate of the run has a report.
C2_ListedNeverInserted ==
    InsertingTask =>
        /\ \A v \in ListedCandidates : ~Called("insert", v)
        /\ pc = "done" =>
              /\ \A v \in ListedCandidates :
                    IF task = "FullAutomation"
                    THEN /\ Called("update", v)
                         /\ CalledWith("update", v, TRUE) => Reported("skipped", v)
                         /\ CalledWith("update", v, FALSE) =>
                               Reported("failed", v) /\ ~Reported("skipped", v)
                    ELSE Reported("skipped", v)
              /\ \A i \in 1..Len(Candidates) :
                    \E k \in 1..Len(reports) : reports[k].id = Candidates[i].id

\* a finished run that skipped a listed candidate and then went on to insert
\* a later one
C2_Witness ==
    /\ InsertingTask /\ pc = "done"
    /\ \E i, j \in 1..Len(Candidates) :
          /\ i < j
          /\ Candidates[i].id \in ListedCandidates
          /\ Reported("skipped", Candidates[i].id)
          /\ CalledWith("insert", Candidates[j].id, TRUE)

\* the positions of the run's calls of one gateway operation
CallsOf(op) == {i \in 1..Len(calls) : calls[i].op = op}

Failed(i) == ~calls[i].ok

\* C3: in FullAutomationTask a failed metadata update or playlist insert is
\* caught: when the run has finished, every candidate of the sorted list
\* has had its metadata update attempted, and at every moment of the run
\* each update that succeeded is still in place (title, privacy and
\* publish time as sent) and each insert that succeeded is still a record.
C3_FailureCaught ==
    task = "FullAutomation" =>
        /\ pc = "done" =>
              \A i \in 1..Len(to_program_data) :
                 Called("update", to_program_data[i].id)
        /\ \A i \in CallsOf("update") :
              calls[i].ok =>
                 /\ videos[calls[i].id].publishAt = calls[i].arg.publishAt
                 /\ videos[calls[i].id].title = calls[i].arg.title
                 /\ videos[calls[i].id].privacyStatus = calls[i].arg.privacyStatus
        /\ \A i \in CallsOf("insert") :
              calls[i].ok => RecordsOf(calls[i].id) # {}

\* a finished run in which an update failed, a later insert failed, and a
\* candidate after both was updated and inserted
C3_Witness ==
    /\ FinishedRun("FullAutomation")
    /\ \E i, j, k \in 1..Len(calls) :
          /\ i < j /\ j < k
          /\ calls[i].op = "update" /\ Failed(i)
          /\ calls[j].op = "insert" /\ Failed(j)
          /\ calls[k].op = "insert" /\ calls[k].ok

\* C4, as stated: a detail fetch that fails for one uploaded item does not
\* end ListPrivateVideosTask (alone or inside FullAutomationTask): the item
\* is skipped and the run goes on.
C4_DetailFailureSkipped ==
    (task \in {"ListPrivateVideos", "FullAutomation"}
        /\ \E i \in 1..Len(reports) : reports[i].kind = "exception")
    => pc # "aborted"

\* generate_schedule has returned its dates to the caller
Generated ==
    \/ FinishedRun("Calendar")
    \/ task = "FullAutomation" /\ pc \in {"fs_loop", "done"} /\ quantity > 0

\* C5: generate_schedule returns exactly `quantity` timestamps (none for
\* quantity 0), each strictly later than the instant it was entered, in
\* non-decreasing order; while it collects it never holds more than
\* `quantity`.
C5_ExactlyQuantityLater ==
    /\ Generated => Len(dates) = quantity
    /\ Len(dates) <= quantity
    /\ \A i \in 1..Len(dates) : Instant(dates[i]) > started
    /\ \A i, j \in 1..Len(dates) : i < j => Instant(dates[i]) <= Instant(dates[j])

\* the largest quantity, entered at the very minute of that day's slot: the
\* slot of the day is passed over and three later ones are returned
C5_Witness ==
    /\ FinishedRun("Calendar")
    /\ quantity = MaxQuantity /\ Len(dates) = MaxQuantity
    /\ slots # <<>>
    /\ \E i \in 1..Len(slots) :
          /\ slots[i][1] = Weekday(started)
          /\ Replace(started, slots[i][2], slots[i][3]) = started
    /\ DayOf(Instant(dates[1])) > DayOf(started)

\* C6: under a weekly template with at least one entry, a generate_schedule
\* that has been entered leaves its day walk, whatever the quantity.
C6_Terminates == (pc = "gen" /\ slots # <<>>) ~> (pc # "gen")

\* a one-entry template has served the largest quantity: the walk went on
\* into a third week
C6_Witness ==
    /\ FinishedRun("Calendar")
    /\ Len(slots) = 1 /\ quantity = MaxQuantity /\ Len(dates) = quantity
    /\ DayOf(current) - DayOf(started) > 14

CallSeq(op) == SelectSeq(calls, LAMBDA c : c.op = op)

\* C8: FullAutomationTask processes the candidates in the order of the list
\* sorted by title, and gives out the timestamps by position: the k-th
\* metadata update of the run is for the k-th candidate and carries the
\* k-th generated timestamp, so no candidate is updated twice and no
\* timestamp goes to two candidates; a finished run has updated them all.
C8_PositionalOrder ==
    (task = "FullAutomation" /\ pc \in {"fs_loop", "done"}) =>
        LET updates == CallSeq("update") IN
        /\ \A i, j \in 1..Len(to_program_data) :
              i < j => ~StrLess(to_program_data[j].title, to_program_data[i].title)
        /\ Len(updates) <= Len(to_program_data)
        /\ pc = "fs_loop" => Len(updates) = idx - 1
        /\ pc = "done" => Len(updates) = Len(to_program_data)
        /\ \A k \in 1..Len(updates) :
              /\ updates[k].id = to_program_data[k].id
              /\ updates[k].arg.publishAt = dates[k]
        /\ \A k, m \in 1..Len(updates) :
              k # m => /\ updates[k].id # updates[m].id
                       /\ updates[k].arg.publishAt # updates[m].arg.publishAt

\* a finished run over three candidates whose sorted order is not their
\* upload order
C8_Witness ==
    /\ FinishedRun("FullAutomation")
    /\ Len(CallSeq("update")) = 3
    /\ to_program_data[1].id # items[1]

\* every metadata update of the run carries privacy "private" and a publish
\* time, and is for a video ListPrivateVideosTask found private
UpdatesKeepPrivate ==
    \A i \in CallsOf("update") :
        /\ calls[i].arg.privacyStatus = "private"
        /\ calls[i].arg.publishAt # <<>>
        /\ \E k \in 1..Len(private_videos) : private_videos[k].id = calls[i].id

\* C9: every metadata update FullAutomationTask sends carries privacy
\* "private" and a publish time and is for a video ListPrivateVideosTask
\* found private; and no step of any task takes a video out of "private".
C9_StaysPrivate ==
    /\ []UpdatesKeepPrivate
    /\ [][\A v \in Videos : videos[v].privacyStatus = "private"
                               => videos'[v].privacyStatus = "private"]_vars

\* a private video has been given a publish time and is private
C9_Witness ==
    \E v \in Videos :
        /\ CalledWith("update", v, TRUE)
        /\ videos[v].publishAt # <<>>
        /\ videos[v].privacyStatus = "private"

\* C10: ClearPlaylistTask attempts one delete per membership record it
\* listed, in listing order, each addressed by the record's id; a failed
\* delete does not stop the later ones; a record whose delete succeeded is
\* gone, one whose delete failed is still there, so with no failure none of
\* the listed records remains.
C10_ClearDeletesEachListed ==
    task = "ClearPlaylist" =>
        /\ Len(calls) <= Len(clear_items)
        /\ pc = "done" => Len(calls) = Len(clear_items)
        /\ \A i \in 1..Len(calls) :
              /\ calls[i].op = "delete"
              /\ calls[i].id = clear_items[i]
              /\ calls[i].ok <=> ~\E k \in 1..Len(playlist) :
                                    playlist[k].id = clear_items[i]

\* a finished clearing in which a delete failed and a later one succeeded
C10_Witness ==
    /\ FinishedRun("ClearPlaylist")
    /\ \E i, j \in 1..Len(calls) : i < j /\ Failed(i) /\ calls[j].ok

\* the candidates of AddPublicShortsExtendedTask that the fetched membership
\* listing does not hold, in processing order
NotListed ==
    SelectSeq(videos_seleccionados,
              LAMBDA v : v.id \notin Range(videos_ya_en_playlist))

\* C11: in AddPublicShortsExtendedTask a failed insert is caught: the
\* insert attempts of the run are, in sorted order, one per candidate that
\* the fetched membership listing does not hold, whether or not an earlier
\* attempt failed; when the run has finished every such candidate has had
\* exactly one attempt, so a failed insert is not tried again.
C11_EachUnlistedTriedOnce ==
    (task = "AddPublicShorts" /\ pc \in {"ss_loop", "done"}) =>
        /\ Len(calls) <= Len(NotListed)
        /\ \A i \in 1..Len(calls) :
              calls[i].op = "insert" /\ calls[i].id = NotListed[i].id
        /\ pc = "done" => Len(calls) = Len(NotListed)

\* a finished run whose first insert failed and whose next candidate was
\* inserted
C11_Witness ==
    /\ FinishedRun("AddPublicShorts")
    /\ Len(calls) >= 2
    /\ calls[1].op = "insert" /\ Failed(1)
    /\ calls[2].op = "insert" /\ calls[2].ok
    /\ calls[1].id # calls[2].id

\* the number the final print of the task states: line 393 prints `count`;
\* lines 248 and 329 print a fixed sentence with no number (-1)
StatedCount == IF task = "AddPublicShorts" THEN count ELSE -1

\* the items of the run whose mutation succeeded: for FullAutomationTask the
\* items whose update succeeded and whose insert, if tried, succeeded too
Successes ==
    IF task = "FullAutomation"
    THEN Cardinality({i \in CallsOf("update") :
            calls[i].ok /\ ~CalledWith("insert", calls[i].id, FALSE)})
    ELSE Cardinality({i \in 1..Len(calls) : calls[i].ok})

\* a per-item gateway call of the run failed: a mutation, or a detail fetch
\* (which ends the run)
SomeItemCallFailed ==
    pc = "aborted" \/ \E i \in 1..Len(calls) : Failed(i)

\* C12, as stated: a run of FullAutomationTask, AddPublicShortsExtendedTask
\* or ClearPlaylistTask in which a per-item gateway call failed is not
\* ended by that failure, and when it has finished it has printed its
\* completion report, which states a count equal to the number of items
\* whose mutation succeeded in the run.
C12_CompletionCountsSuccesses ==
    (task \in {"FullAutomation", "AddPublicShorts", "ClearPlaylist"}
        /\ SomeItemCallFailed) =>
        /\ pc # "aborted"
        /\ pc = "done" =>
              /\ Reported("completed", "-")
              /\ StatedCount = Successes

\* the length in seconds that an ISO-8601 duration names
RECURSIVE Seconds(_)
Seconds(duration) ==
    IF duration = <<>> THEN 0
    ELSE LET tok == Head(duration) IN
         tok.n * (CASE tok.u = "D" -> 86400 [] tok.u = "H" -> 3600
                    [] tok.u = "M" -> 60 [] OTHER -> 1)
         + Seconds(Tail(duration))

SelectedIds == {videos_seleccionados[i].id : i \in 1..Len(videos_seleccionados)}

\* C13, as stated: once AddPublicShortsExtendedTask has scanned the uploads,
\* an uploaded item is a candidate if and only if its privacy is public and
\* its length in seconds d satisfies 0 < d <= 120.
C13_PublicAndShortSelected ==
    (task = "AddPublicShorts" /\ pc \in {"ss_loop", "done"}) =>
        \A v \in Range(all_items) :
           v \in SelectedIds <=>
              /\ videos[v].privacyStatus = "public"
              /\ 0 < Seconds(videos[v].duration)
              /\ Seconds(videos[v].duration) <= MaxSeconds

\* the title has the tag, in any letter case
Tagged(title) == Contains(Lower(title), Tag)

\* how many times the title has the tag, in any letter case
TagCount(title) ==
    Cardinality({i \in 1..Len(title) :
        /\ i + Len(Tag) - 1 <= Len(title)
        /\ SubSeq(Lower(title), i, i + Len(Tag) - 1) = Tag})

\* the title of candidate v as ListPrivateVideosTask read it
ListedTitle(v) ==
    LET at == {k \in 1..Len(to_program_data) : to_program_data[k].id = v} IN
    to_program_data[CHOOSE k \in at : TRUE].title

\* C14: the title tagging of FullAutomationTask is idempotent: every title
\* it sends is tagged and is a fixed point of the tagging rule (tagging it
\* again returns it unchanged), a title that was read already tagged, in
\* any letter case, is sent unchanged, and a sent title has the tag once
\* unless the title as read had it more often, so a run over an item an
\* earlier run updated appends no second tag.
C14_TaggingIdempotent ==
    task = "FullAutomation" =>
        \A i \in CallsOf("update") :
           LET read == ListedTitle(calls[i].id)
               sent == calls[i].arg.title
           IN /\ Tagged(sent)
              /\ NewTitle(sent) = sent
              /\ NewTitle(NewTitle(read)) = NewTitle(read)
              /\ Tagged(read) => sent = read
              /\ TagCount(sent) = IF Tagged(read) THEN TagCount(read) ELSE 1

\* the second run of FullAutomationTask has finished: it sent v3, which the
\* first run had tagged ("a #biblia"), and v1, tagged in capitals
\* ("#BIBLIA"), both with the title unchanged
C14_Witness ==
    /\ FinishedRun("FullAutomation") /\ runsLeft = 0
    /\ \E i, j \in CallsOf("update") :
          /\ calls[i].id = "v3" /\ calls[i].ok
          /\ ListedTitle("v3") = <<97, 32>> \o Tag
          /\ calls[i].arg.title = <<97, 32>> \o Tag
          /\ calls[j].id = "v1" /\ calls[j].ok
          /\ ListedTitle("v1") = <<35, 66, 73, 66, 76, 73, 65>>
          /\ calls[j].arg.title = <<35, 66, 73, 66, 76, 73, 65>>

\* the titles of a list of items, in order
TitlesOf(seq) == [i \in 1..Len(seq) |-> seq[i].title]

\* the uploads whose privacy is p, as a set of ids
UploadsWith(p) == {v \in Range(uploads) : videos[v].privacyStatus = p}

\* the titles B, a, C, in upload order
TitlesBaC ==
    videos["v1"].title = <<66>> /\ videos["v2"].title = <<97>>
        /\ videos["v3"].title = <<67>>

\* C15: what ListPrivateVideosTask returns is the private uploads, each
\* once, sorted by title ascending with the letter case counting (B, a, C
\* give B, C, a); the candidates AddPublicShortsExtendedTask processes are
\* sorted by title descending with the letter case ignored (B, a, C give
\* C, B, a), and it reports them in that order.
C15_SortOrders ==
    /\ (task = "ListPrivateVideos" /\ pc = "done") =>
          /\ \A i, j \in 1..Len(private_videos) :
                i < j => /\ ~StrLess(private_videos[j].title,
                                     private_videos[i].title)
                         /\ private_videos[i].id # private_videos[j].id
          /\ {private_videos[i].id : i \in 1..Len(private_videos)}
                = UploadsWith("private")
          /\ (TitlesBaC /\ UploadsWith("private") = Videos) =>
                TitlesOf(private_videos) = << <<66>>, <<67>>, <<97>> >>
    /\ (task = "AddPublicShorts" /\ pc \in {"ss_loop", "done"}) =>
          /\ \A i, j \in 1..Len(videos_seleccionados) :
                i < j => ~StrLess(Lower(videos_seleccionados[i].title),
                                  Lower(videos_seleccionados[j].title))
          /\ (TitlesBaC /\ SelectedIds = Videos) =>
                TitlesOf(videos_seleccionados) = << <<67>>, <<66>>, <<97>> >>
          /\ \A k \in 1..Len(reports) :
                reports[k].kind = "completed"
                   \/ reports[k].id = videos_seleccionados[k].id

\* ListPrivateVideosTask has returned B, C, a for the titles B, a, C
C15_Witness ==
    /\ FinishedRun("ListPrivateVideos")
    /\ TitlesBaC
    /\ TitlesOf(private_videos) = << <<66>>, <<67>>, <<97>> >>

ReadOnlyTask(t) == t \in {"ListPrivateVideos", "TestShortsRelatedField"}

\* a step of the probe's try block in which the detail fetch failed
ProbeFetchFailed ==
    task = "TestShortsRelatedField" /\ pc = "probe" /\ failsLeft' < failsLeft

\* no step of a run of ListPrivateVideosTask or TestShortsRelatedFieldTask
\* calls update, insert or delete or changes the videos, the uploads or the
\* playlist
ReadOnlyStep ==
    ReadOnlyTask(task') =>
        /\ calls' = <<>>
        /\ videos' = videos /\ uploads' = uploads /\ playlist' = playlist

\* C16, as stated: TestShortsRelatedFieldTask and ListPrivateVideosTask are
\* read-only, and a failure of the probe's detail fetch is caught (the task
\* ends normally) and reported as "not found".
C16_ProbeFailureNotFound ==
    [][/\ ReadOnlyStep
       /\ ProbeFetchFailed =>
             /\ pc' = "done"
             /\ reports' = <<Report("result", "NO ENCONTRADO")>>]_vars

\* C16, amended: TestShortsRelatedFieldTask and ListPrivateVideosTask are
\* read-only, and a failure of the probe's detail fetch is caught (the task
\* ends normally) and reported as an error on the short; "not found" is the
\* result printed when the fetch answered and the record has no
\* relatedVideoId.
C16_ProbeFailureReported ==
    [][/\ ReadOnlyStep
       /\ ProbeFetchFailed =>
             /\ pc' = "done"
             /\ reports' = <<Report("error", ShortId)>>
       /\ (task = "TestShortsRelatedField" /\ pc = "probe"
             /\ failsLeft' = failsLeft) =>
             /\ pc' = "done"
             /\ \E related \in RelatedValues :
                   reports' = <<Report("result", related)>>]_vars

\* a run of the probe has ended normally after its detail fetch failed,
\* with the error reported and no mutating call made
C16_Witness ==
    /\ FinishedRun("TestShortsRelatedField")
    /\ reports = <<Report("error", ShortId)>>
    /\ calls = <<>>

\* C17: in FullAutomationTask every insert call comes right after the
\* metadata update of the same item, and that update succeeded; an item
\* whose update failed has no insert call in the run; and every item the
\* run made a member carries the publish time and the private status the
\* run sent for it.
C17_InsertOnlyAfterUpdate ==
    task = "FullAutomation" =>
        /\ \A i \in CallsOf("insert") :
              /\ i > 1
              /\ calls[i - 1].op = "update"
              /\ calls[i - 1].id = calls[i].id
              /\ calls[i - 1].ok
              /\ calls[i].ok =>
                    /\ videos[calls[i].id].publishAt = calls[i - 1].arg.publishAt
                    /\ videos[calls[i].id].publishAt # <<>>
                    /\ videos[calls[i].id].privacyStatus = "private"
        /\ \A i \in CallsOf("update") :
              Failed(i) => ~Called("insert", calls[i].id)

\* a finished run in which the update of one item failed, so that it has no
\* insert and is no member, and a later item was updated and inserted
C17_Witness ==
    /\ FinishedRun("FullAutomation")
    /\ \E i, j \in 1..Len(calls) :
          /\ i < j
          /\ calls[i].op = "update" /\ Failed(i)
          /\ ~Called("insert", calls[i].id)
          /\ RecordsOf(calls[i].id) = {}
          /\ calls[j].op = "insert" /\ calls[j].ok
          /\ RecordsOf(calls[j].id) # {}

\* the instants of the template's slots from the day generate_schedule was
\* entered on, strictly after the instant it was entered at
SlotInstantsAfterEntry ==
    {t \in {Replace(d * MinutesPerDay, slots[i][2], slots[i][3]) :
              d \in DayOf(started)..(DayOf(started) + MaxDays),
              i \in 1..Len(slots)} :
        /\ t > started
        /\ \E i \in 1..Len(slots) :
              /\ slots[i][1] = Weekday(t)
              /\ Replace(t, slots[i][2], slots[i][3]) = t}

\* the q earliest of them
Earliest(q) ==
    {t \in SlotInstantsAfterEntry :
        Cardinality({u \in SlotInstantsAfterEntry : u < t}) < q}

\* C18, as stated: what generate_schedule returns is exactly the `quantity`
\* earliest slot instants of the template strictly after the instant `now`
\* it was entered at, in calendar order, at most one per day: no slot after
\* `now` is passed over.
C18_EarliestSlotsInOrder ==
    (Generated /\ slots # <<>>) =>
        /\ {Instant(dates[i]) : i \in 1..Len(dates)} = Earliest(quantity)
        /\ \A i, j \in 1..Len(dates) :
              i < j => DayOf(Instant(dates[i])) < DayOf(Instant(dates[j]))

\* C19: a run of FullAutomationTask in which ListPrivateVideosTask has found
\* no private item makes no gateway call that mutates (no update, no
\* insert), never enters generate_schedule or the processing loop, and
\* leaves the videos and the playlist as they were.
C19_NothingPrivateNothingDone ==
    [][(task' = "FullAutomation" /\ private_videos' = <<>>) =>
          /\ calls' = <<>>
          /\ videos' = videos /\ playlist' = playlist
          /\ pc' \notin {"gen", "fs_loop"}
          /\ quantity' = 0 /\ dates' = <<>>]_vars

\* FullAutomationTask has ended at its early return: no item of the uploads
\* is private and the playlist holds records
C19_Witness ==
    /\ FinishedRun("FullAutomation")
    /\ private_videos = <<>>
    /\ \A v \in Range(uploads) : videos[v].privacyStatus # "private"
    /\ reports = <<Report("nothing", "-")>>
    /\ calls = <<>> /\ playlist # <<>>

====
